---- MODULE Spec2Model ----
(***************************************************************************)
(* A model of the rex regular-expression engine (src/main.cpp): the Lexer, *)
(* the recursive-descent Parser, the AST node classes with their match     *)
(* methods, and the Matcher.  Strings are sequences of one-character       *)
(* strings.  The parser is a pure function of the pattern and is computed  *)
(* by recursive operators; matching is executed step by step on an         *)
(* explicit call stack so that the loops of StarNode::match are visible.   *)
(* size_t cursors are kept modulo Word.                                    *)
(***************************************************************************)
EXTENDS Integers, Sequences, FiniteSets, TLC

VARIABLES pc, pattern, nodes, root, parseEnd, text, index, stack, ret,
          result, captured, lastRet, retSpans, capBefore

\* pc, pattern, nodes, root, parseEnd, text, index, stack, ret, result and
\* captured are the program's state.  lastRet (the latest return of a match
\* method: receiver, cursor on entry and on return, verdict), retSpans (where
\* each Group matched below the latest successful return) and capBefore (the
\* captures when the running Matcher::match call began) only observe it.
vars == <<pc, pattern, nodes, root, parseEnd, text, index, stack, ret,
          result, captured, lastRet, retSpans, capBefore>>

(***************************************************************************)
(* Bounds of the model.                                                    *)
(***************************************************************************)
MaxPatLen == 3
MaxTextLen == 2
WordBits == 3

Word == 2 ^ WordBits

PatChars == {"a", ".", "*", "|", "(", ")"}
TextChars == {"a", "b"}

SeqsUpTo(S, n) == UNION {[1..k -> S] : k \in 0..n}

ExtraPatterns ==
    { <<"(", "a", ")", "(", "b", "*", ")">>,
      <<"a", "b", "|", "c", "d">>,
      <<"a", "|", "a", "b">>,
      <<"(", "a", "*", ")", "*">>,
      <<"(", "(", "a", "*", ")", "b", ")", "*">>,
      <<".", "(", "a", "|", "a", "*", ")">> }

ExtraTexts ==
    { <<"a", "b", "b">>, <<"a", "a", "a", "a">>, <<"a", "b", "d">>, <<"c", "d">> }

Patterns == SeqsUpTo(PatChars, MaxPatLen) \cup ExtraPatterns
Texts == SeqsUpTo(TextChars, MaxTextLen) \cup ExtraTexts

NUL == "NUL"
Null == 0

(***************************************************************************)
(* Lexer                                                                   *)
(***************************************************************************)
TokenType(current) ==
    CASE current = "*" -> "STAR"
      [] current = "." -> "DOT"
      [] current = "(" -> "LPAREN"
      [] current = ")" -> "RPAREN"
      [] current = "|" -> "ALTERNATION"
      [] OTHER -> "LITERAL"

\* Lexer::nextToken: the token at the scan cursor and the cursor after it.
nextToken(pat, idx) ==
    IF idx >= Len(pat)
    THEN [type |-> "END", value |-> NUL, index |-> idx]
    ELSE [type |-> TokenType(pat[idx + 1]), value |-> pat[idx + 1],
          index |-> idx + 1]

(***************************************************************************)
(* AST nodes, allocated in an arena in the order of make_unique; a child   *)
(* reference is an arena position, Null for an empty unique_ptr.           *)
(***************************************************************************)
LiteralNode(value) ==
    [kind |-> "Literal", value |-> value, node |-> Null, left |-> Null, right |-> Null]
DotNode ==
    [kind |-> "Dot", value |-> NUL, node |-> Null, left |-> Null, right |-> Null]
StarNode(node) ==
    [kind |-> "Star", value |-> NUL, node |-> node, left |-> Null, right |-> Null]
ConcatNode(left, right) ==
    [kind |-> "Concat", value |-> NUL, node |-> Null, left |-> left, right |-> right]
GroupNode(node) ==
    [kind |-> "Group", value |-> NUL, node |-> node, left |-> Null, right |-> Null]
AlternationNode(left, right) ==
    [kind |-> "Alternation", value |-> NUL, node |-> Null, left |-> left, right |-> right]

(***************************************************************************)
(* Parser.  A parser state p holds the lexer (pattern, index), the current *)
(* token and the nodes made so far.                                        *)
(***************************************************************************)
\* Parser::Parser: currentToken is the lexer's first token.
Parser(pat) ==
    LET t == nextToken(pat, 0)
    IN  [pattern |-> pat, index |-> t.index,
         currentToken |-> [type |-> t.type, value |-> t.value], nodes |-> <<>>]

advance(p) ==
    LET t == nextToken(p.pattern, p.index)
    IN  [p EXCEPT !.index = t.index,
                  !.currentToken = [type |-> t.type, value |-> t.value]]

\* std::make_unique<...>: the new node's reference is its arena position.
make_unique(p, n) == [p |-> [p EXCEPT !.nodes = Append(@, n)], node |-> Len(p.nodes) + 1]

RECURSIVE parsePrimary(_), parseExpression(_), parseExpressionLoop(_, _)

parsePrimary(p) ==
    LET ty == p.currentToken.type
        r == CASE ty = "LITERAL" ->
                    LET m == make_unique(p, LiteralNode(p.currentToken.value))
                    IN  [p |-> advance(m.p), node |-> m.node]
               [] ty = "DOT" ->
                    LET m == make_unique(p, DotNode)
                    IN  [p |-> advance(m.p), node |-> m.node]
               [] ty = "LPAREN" ->
                    LET e == parseExpression(advance(p))
                        q == IF e.p.currentToken.type = "RPAREN"
                             THEN advance(e.p) ELSE e.p
                    IN  make_unique(q, GroupNode(e.node))
               [] OTHER -> [p |-> p, node |-> Null]
    IN  IF r.p.currentToken.type = "STAR"
        THEN LET m == make_unique(r.p, StarNode(r.node))
             IN  [p |-> advance(m.p), node |-> m.node]
        ELSE r

\* The while (true) loop of Parser::parseExpression.
parseExpressionLoop(p, left) ==
    LET ty == p.currentToken.type
    IN  IF ty = "ALTERNATION"
        THEN LET r == parsePrimary(advance(p))
                 m == make_unique(r.p, AlternationNode(left, r.node))
             IN  parseExpressionLoop(m.p, m.node)
        ELSE IF ty \in {"LITERAL", "DOT", "LPAREN"}
        THEN LET r == parsePrimary(p)
                 m == make_unique(r.p, ConcatNode(left, r.node))
             IN  parseExpressionLoop(m.p, m.node)
        ELSE [p |-> p, node |-> left]

parseExpression(p) ==
    LET r == parsePrimary(p)
    IN  parseExpressionLoop(r.p, r.node)

(***************************************************************************)
(* The result of compiling a pattern: main() builds a Lexer and a Parser   *)
(* and calls parseExpression once.                                         *)
(***************************************************************************)
compile(pat) == parseExpression(Parser(pat))

(***************************************************************************)
(* size_t arithmetic.                                                      *)
(***************************************************************************)
Inc(i) == (i + 1) % Word
DecSigned(i) == i - 1
Dec(i) == (i - 1) % Word
Sub(a, b) == (a - b) % Word
Min(a, b) == IF a < b THEN a ELSE b

\* std::string::substr(pos, n) for pos <= size: n is clipped to the end.
substr(txt, pos, n) == SubSeq(txt, pos + 1, pos + Min(n, Len(txt) - pos))

(***************************************************************************)
(* The call stack of match.  A frame is one activation of a node's match:  *)
(* node is the receiver, pc the position inside the method, ref the cell   *)
(* its parameter  size_t &index  is bound to (0: Matcher::match's local    *)
(* index; k > 0: the local temp of frame k), start the value of that cell  *)
(* on entry (the local start of StarNode and GroupNode), temp the local    *)
(* temp of ConcatNode and AlternationNode.  spans records, for the checks  *)
(* on captures, where each Group below this activation matched in the      *)
(* children that succeeded.                                                *)
(***************************************************************************)
Frame(n, r, cur) ==
    [node |-> n, pc |-> "enter", ref |-> r, start |-> cur, temp |-> 0, spans |-> {}]

Top == stack[Len(stack)]
Depth == Len(stack)

Cell(stk, idx, r) == IF r = 0 THEN idx ELSE stk[r].temp
WriteStack(stk, r, v) == IF r = 0 THEN stk ELSE [stk EXCEPT ![r].temp = v]
WriteIndex(idx, r, v) == IF r = 0 THEN v ELSE idx

TopKind ==
    IF pc # "matching" \/ stack = <<>> THEN "none"
    ELSE IF Top.node = Null THEN "null"
    ELSE nodes[Top.node].kind

TopNode == nodes[Top.node]

Pop(stk) == SubSeq(stk, 1, Len(stk) - 1)

Merge(old, new) == new \cup {x \in old : \A y \in new : y.g # x.g}

NoRet == [kind |-> "none", node |-> 0, start |-> 0, end |-> 0, ok |-> FALSE, via |-> "-"]

\* The top frame calls match on node n, passing the cell r as index.
Call(newpc, n, r, stk) ==
    /\ stack' = Append([stk EXCEPT ![Len(stk)].pc = newpc], Frame(n, r, Cell(stk, index, r)))
    /\ UNCHANGED <<pc, pattern, nodes, root, parseEnd, text, index, ret, result,
                   captured, lastRet, retSpans, capBefore>>

\* The top frame returns ok; stk and idx are the stack (frame still on it)
\* and Matcher's index after the method's writes.
Return(ok, stk, idx, sp, via) ==
    LET f == stk[Len(stk)]
    IN  /\ stack' = Pop(stk)
        /\ index' = idx
        /\ ret' = ok
        /\ retSpans' = IF ok THEN sp ELSE {}
        /\ lastRet' = [kind |-> IF f.node = Null THEN "null" ELSE nodes[f.node].kind,
                       node |-> f.node, start |-> f.start,
                       end |-> Cell(stk, idx, f.ref), ok |-> ok, via |-> via]
        /\ UNCHANGED <<pc, pattern, nodes, root, parseEnd, text, result, capBefore>>

(***************************************************************************)
(* Initial state and compilation                                           *)
(***************************************************************************)
Init ==
    /\ pc = "init"
    /\ pattern \in Patterns
    /\ nodes = <<>>
    /\ root = Null
    /\ parseEnd = "END"
    /\ text = <<>>
    /\ index = 0
    /\ stack = <<>>
    /\ ret = FALSE
    /\ result = FALSE
    /\ captured = <<>>
    /\ lastRet = NoRet
    /\ retSpans = {}
    /\ capBefore = <<>>

GroupIds(ns) == {i \in 1..Len(ns) : ns[i].kind = "Group"}

\* Lexer lexer(pattern); Parser parser(lexer); root = parser.parseExpression();
\* Matcher matcher(std::move(root));
Compile ==
    /\ pc = "init"
    /\ LET r == compile(pattern)
       IN  /\ nodes' = r.p.nodes
           /\ root' = r.node
           /\ parseEnd' = r.p.currentToken.type
           /\ captured' = [g \in GroupIds(r.p.nodes) |-> <<>>]
           /\ capBefore' = [g \in GroupIds(r.p.nodes) |-> <<>>]
    /\ pc' = "compiled"
    /\ UNCHANGED <<pattern, text, index, stack, ret, result, lastRet, retSpans>>

(***************************************************************************)
(* Matcher                                                                 *)
(***************************************************************************)
MatcherVerdictNoEnd(ok, idx, txt) == ok
MatcherVerdict(ok, idx, txt) == ok /\ idx = Len(txt)

\* Matcher::match, entry: size_t index = 0; root->match(text, index)
MatcherMatch ==
    /\ pc \in {"compiled", "done"}
    /\ \E t \in Texts : text' = t
    /\ index' = 0
    /\ stack' = <<Frame(root, 0, 0)>>
    /\ ret' = FALSE
    /\ result' = FALSE
    /\ lastRet' = NoRet
    /\ retSpans' = {}
    /\ capBefore' = captured
    /\ pc' = "matching"
    /\ UNCHANGED <<pattern, nodes, root, parseEnd, captured>>

\* Matcher::match, after the root returned: ... && index == text.length()
MatcherReturn ==
    /\ pc = "matching"
    /\ stack = <<>>
    /\ result' = MatcherVerdict(ret, index, text)
    /\ pc' = "done"
    /\ UNCHANGED <<pattern, nodes, root, parseEnd, text, index, stack, ret,
                   captured, lastRet, retSpans, capBefore>>

(***************************************************************************)
(* LiteralNode::match and DotNode::match                                   *)
(***************************************************************************)
LiteralMatch ==
    /\ TopKind = "Literal"
    /\ LET c == Cell(stack, index, Top.ref)
       IN  IF c < Len(text) /\ text[c + 1] = TopNode.value
           THEN Return(TRUE, WriteStack(stack, Top.ref, Inc(c)),
                       WriteIndex(index, Top.ref, Inc(c)), {}, "-")
           ELSE Return(FALSE, stack, index, {}, "-")
    /\ UNCHANGED captured

DotMatch ==
    /\ TopKind = "Dot"
    /\ LET c == Cell(stack, index, Top.ref)
       IN  IF c < Len(text)
           THEN Return(TRUE, WriteStack(stack, Top.ref, Inc(c)),
                       WriteIndex(index, Top.ref, Inc(c)), {}, "-")
           ELSE Return(FALSE, stack, index, {}, "-")
    /\ UNCHANGED captured

(***************************************************************************)
(* StarNode::match                                                         *)
(***************************************************************************)
\* size_t start = index; first evaluation of the greedy loop's condition.
StarEnter ==
    /\ TopKind = "Star"
    /\ Top.pc = "enter"
    /\ Call("greedy", TopNode.node, Top.ref, stack)

\* while (node->match(text, index)) ;
StarGreedy ==
    /\ TopKind = "Star"
    /\ Top.pc = "greedy"
    /\ IF ret
       THEN Call("greedy", TopNode.node, Top.ref,
                 [stack EXCEPT ![Depth].spans = Merge(@, retSpans)])
       ELSE /\ stack' = [stack EXCEPT ![Depth].pc = "back"]
            /\ UNCHANGED <<pc, pattern, nodes, root, parseEnd, text, index, ret,
                           result, captured, lastRet, retSpans, capBefore>>

\* while (index >= start) { if (index == text.length() || node->match(...
StarBacktrack ==
    /\ TopKind = "Star"
    /\ Top.pc = "back"
    /\ LET c == Cell(stack, index, Top.ref)
       IN  IF c >= Top.start
           THEN IF c = Len(text)
                THEN Return(TRUE, stack, index, Top.spans, "end") /\ UNCHANGED captured
                ELSE Call("retry", TopNode.node, Top.ref, stack)
           ELSE Return(FALSE, stack, index, {}, "guard") /\ UNCHANGED captured

\* ... node->match(text, index)) return true;  --index; }
StarRetry ==
    /\ TopKind = "Star"
    /\ Top.pc = "retry"
    /\ IF ret
       THEN Return(TRUE, stack, index, Merge(Top.spans, retSpans), "child")
            /\ UNCHANGED captured
       ELSE LET c == Cell(stack, index, Top.ref)
            IN  /\ stack' = WriteStack([stack EXCEPT ![Depth].pc = "back"], Top.ref, Dec(c))
                /\ index' = WriteIndex(index, Top.ref, Dec(c))
                /\ UNCHANGED <<pc, pattern, nodes, root, parseEnd, text, ret, result,
                               captured, lastRet, retSpans, capBefore>>

(***************************************************************************)
(* ConcatNode::match                                                       *)
(***************************************************************************)
\* size_t temp = index; left->match(text, temp)
ConcatEnter ==
    /\ TopKind = "Concat"
    /\ Top.pc = "enter"
    /\ Call("left", TopNode.left, Depth,
            [stack EXCEPT ![Depth].temp = Cell(stack, index, Top.ref)])

\* ... && right->match(text, temp)
ConcatLeft ==
    /\ TopKind = "Concat"
    /\ Top.pc = "left"
    /\ IF ret
       THEN Call("right", TopNode.right, Depth,
                 [stack EXCEPT ![Depth].spans = Merge(@, retSpans)])
       ELSE Return(FALSE, stack, index, {}, "-") /\ UNCHANGED captured

\* { index = temp; return true; } return false;
ConcatRight ==
    /\ TopKind = "Concat"
    /\ Top.pc = "right"
    /\ IF ret
       THEN Return(TRUE, WriteStack(stack, Top.ref, Top.temp),
                   WriteIndex(index, Top.ref, Top.temp),
                   Merge(Top.spans, retSpans), "-")
       ELSE Return(FALSE, stack, index, {}, "-")
    /\ UNCHANGED captured

(***************************************************************************)
(* GroupNode::match                                                        *)
(***************************************************************************)
\* size_t start = index; node->match(text, index)
GroupEnter ==
    /\ TopKind = "Group"
    /\ Top.pc = "enter"
    /\ Call("child", TopNode.node, Top.ref, stack)

\* The captured text after a successful child: text.substr(start, index - start).
GroupCapture(txt, start, idx) == substr(txt, start, Sub(idx, start))

\* { captured = text.substr(start, index - start); return true; } return false;
\* substr throws std::out_of_range when start > text.size(); nothing catches it.
GroupReturn ==
    /\ TopKind = "Group"
    /\ Top.pc = "child"
    /\ LET c == Cell(stack, index, Top.ref)
       IN  IF ret
           THEN IF Top.start > Len(text)
                THEN /\ pc' = "crashed"
                     /\ UNCHANGED <<pattern, nodes, root, parseEnd, text, index, stack,
                                    ret, result, captured, lastRet, retSpans, capBefore>>
                ELSE /\ captured' = [captured EXCEPT
                                        ![Top.node] = GroupCapture(text, Top.start, c)]
                     /\ Return(TRUE, stack, index,
                               Merge(retSpans, {[g |-> Top.node, s |-> Top.start, e |-> c]}),
                               "-")
           ELSE Return(FALSE, stack, index, {}, "-") /\ UNCHANGED captured

(***************************************************************************)
(* AlternationNode::match                                                  *)
(***************************************************************************)
\* size_t temp = index; left->match(text, temp)
AlternationEnter ==
    /\ TopKind = "Alternation"
    /\ Top.pc = "enter"
    /\ Call("left", TopNode.left, Depth,
            [stack EXCEPT ![Depth].temp = Cell(stack, index, Top.ref)])

\* { index = temp; return true; }  right->match(text, index)
AlternationLeft ==
    /\ TopKind = "Alternation"
    /\ Top.pc = "left"
    /\ IF ret
       THEN Return(TRUE, WriteStack(stack, Top.ref, Top.temp),
                   WriteIndex(index, Top.ref, Top.temp), retSpans, "-")
            /\ UNCHANGED captured
       ELSE Call("right", TopNode.right, Top.ref, stack)

\* if (right->match(text, index)) return true;  return false;
AlternationRight ==
    /\ TopKind = "Alternation"
    /\ Top.pc = "right"
    /\ Return(ret, stack, index, retSpans, "-")
    /\ UNCHANGED captured

(***************************************************************************)
(* A call of match through an empty unique_ptr is undefined behaviour.     *)
(* The process dies on the load through the null pointer, or its behaviour *)
(* from here on is unconstrained: "undefined" stands for every other       *)
(* outcome, and nothing is asserted of it.                                 *)
(***************************************************************************)
NullDeref ==
    /\ TopKind = "null"
    /\ \E outcome \in {"crashed", "undefined"} : pc' = outcome
    /\ UNCHANGED <<pattern, nodes, root, parseEnd, text, index, stack, ret,
                   result, captured, lastRet, retSpans, capBefore>>

(***************************************************************************)
(* Specification                                                           *)
(***************************************************************************)
Step ==
    \/ LiteralMatch
    \/ DotMatch
    \/ StarEnter
    \/ StarGreedy
    \/ StarBacktrack
    \/ StarRetry
    \/ ConcatEnter
    \/ ConcatLeft
    \/ ConcatRight
    \/ GroupEnter
    \/ GroupReturn
    \/ AlternationEnter
    \/ AlternationLeft
    \/ AlternationRight
    \/ NullDeref
    \/ MatcherReturn

Next ==
    \/ Compile
    \/ MatcherMatch
    \/ Step

Spec == Init /\ [][Next]_vars

\* A call of Matcher::match runs on the calling thread without yielding: once
\* begun, its next step is always taken.
FairSpec == Spec /\ WF_vars(Step)

(***************************************************************************)
(* Vocabulary of the properties                                            *)
(***************************************************************************)
\* Every unique_ptr of the tree holds a node.
Complete ==
    /\ root # Null
    /\ \A i \in 1..Len(nodes) :
          /\ nodes[i].kind \in {"Star", "Group"} => nodes[i].node # Null
          /\ nodes[i].kind \in {"Concat", "Alternation"} =>
                nodes[i].left # Null /\ nodes[i].right # Null

Count(s, c) == Cardinality({i \in 1..Len(s) : s[i] = c})

\* The pattern was compiled into a complete tree and read to its end, and
\* its parentheses are paired.
Accepted ==
    /\ pc # "init"
    /\ Complete
    /\ parseEnd = "END"
    /\ Count(pattern, "(") = Count(pattern, ")")

Suffix(s, k) == SubSeq(s, k + 1, Len(s))
Prefix(s, k) == SubSeq(s, 1, k)

\* s lies in the language denoted by node n: literal = that character,
\* dot = any one character, star = zero or more repetitions, concat =
\* sequential composition, alternation = union, group = its child.
RECURSIVE Denotes(_, _)
Denotes(n, s) ==
    LET nd == nodes[n]
    IN  CASE nd.kind = "Literal" -> s = <<nd.value>>
          [] nd.kind = "Dot" -> Len(s) = 1
          [] nd.kind = "Star" ->
                \/ s = <<>>
                \/ \E k \in 1..Len(s) :
                      Denotes(nd.node, Prefix(s, k)) /\ Denotes(n, Suffix(s, k))
          [] nd.kind = "Concat" ->
                \E k \in 0..Len(s) :
                   Denotes(nd.left, Prefix(s, k)) /\ Denotes(nd.right, Suffix(s, k))
          [] nd.kind = "Alternation" -> Denotes(nd.left, s) \/ Denotes(nd.right, s)
          [] nd.kind = "Group" -> Denotes(nd.node, s)

\* The tree below arena position n, as a value.
RECURSIVE Tree(_)
Tree(n) ==
    IF n = Null THEN <<"null">>
    ELSE LET nd == nodes[n]
         IN  CASE nd.kind = "Literal" -> <<"Literal", nd.value>>
               [] nd.kind = "Dot" -> <<"Dot">>
               [] nd.kind \in {"Star", "Group"} -> <<nd.kind, Tree(nd.node)>>
               [] OTHER -> <<nd.kind, Tree(nd.left), Tree(nd.right)>>

\* The tree the grammar  Expression := Term ('|' Term)*, Term := Factor+
\* gives for a pattern  t1 | t2  whose terms are runs of literals and dots.
IsAtomChar(c) == c \notin {"*", "|", "(", ")"}
AtomTree(c) == IF c = "." THEN <<"Dot">> ELSE <<"Literal", c>>
RECURSIVE TermTree(_)
TermTree(t) ==
    IF Len(t) = 1 THEN AtomTree(t[1])
    ELSE <<"Concat", TermTree(Prefix(t, Len(t) - 1)), AtomTree(t[Len(t)])>>

IsTwoTerms(pat, k) ==
    /\ k \in 2..(Len(pat) - 1)
    /\ pat[k] = "|"
    /\ \A i \in 1..Len(pat) : i # k => IsAtomChar(pat[i])

(***************************************************************************)
(* Properties                                                              *)
(***************************************************************************)

\* C1: for an accepted pattern, Matcher::match returns true if and only if
\* the text lies in the language denoted by the compiled pattern.
ClaimC1 ==
    (pc = "done" /\ Accepted) => (result <=> Denotes(root, text))

\* C2: matching is anchored at both ends: the root is started at cursor 0,
\* and the verdict is true only if the root succeeded and its cursor ended
\* at the text's length; a root that consumed a proper prefix gives false.
ClaimC2 ==
    pc = "done" =>
       /\ lastRet.node = root
       /\ lastRet.start = 0
       /\ result <=> (lastRet.ok /\ lastRet.end = Len(text))

WitnessC2 ==
    /\ pc = "done"
    /\ lastRet.ok
    /\ lastRet.end < Len(text)
    /\ result = FALSE

\* C3: whenever a node's match returns, having been started at a cursor
\* within the text: on false the caller's cursor is what it was before the
\* call, on true it lies between the start and the text's length.
ClaimC3 ==
    (Accepted /\ lastRet.kind # "none" /\ lastRet.start <= Len(text)) =>
       /\ ~lastRet.ok => lastRet.end = lastRet.start
       /\ lastRet.ok => (lastRet.start <= lastRet.end /\ lastRet.end <= Len(text))

\* C4: for a pattern Concat(Star(c), r), the match of the whole text
\* succeeds whenever some repetitions of c followed by r make up the text.
ClaimC4 ==
    (/\ pc = "done"
     /\ Accepted
     /\ nodes[root].kind = "Concat"
     /\ nodes[nodes[root].left].kind = "Star"
     /\ Denotes(root, text))
    => result = TRUE

\* C5: alternation binds weaker than concatenation: a pattern t1 | t2 whose
\* terms are runs of atoms compiles to Alternation(concat of t1, concat of t2).
ClaimC5 ==
    pc # "init" =>
       \A k \in 1..Len(pattern) :
          IsTwoTerms(pattern, k) =>
             Tree(root) = <<"Alternation", TermTree(Prefix(pattern, k - 1)),
                                            TermTree(Suffix(pattern, k))>>

\* C6: every call of Matcher::match on an accepted pattern runs to
\* completion and delivers a verdict.
ClaimC6 ==
    (pc = "matching" /\ Accepted) ~> (pc = "done")

\* C7: every tree the parser returns is complete: the root and every child
\* of every Star, Concat, Alternation and Group node is a node.
ClaimC7 ==
    pc # "init" => Complete

\* C8: after a successful full match, each Group that took part in the
\* match holds the text between the cursors at which its child started and
\* ended in that match.
ClaimC8 ==
    (pc = "done" /\ Accepted /\ result) =>
       \A x \in retSpans : captured[x.g] = SubSeq(text, x.s + 1, x.e)

\* C9: a call of Matcher::match that returns false leaves every Group's
\* capture as it was before the call.
ClaimC9 ==
    (pc = "done" /\ Accepted /\ ~result) => captured = capBefore

\* C10: StarNode::match entered at cursor 0 never returns false; it returns
\* true, at the text's length or right after a match of its child.
ClaimC10 ==
    (lastRet.kind = "Star" /\ lastRet.start = 0) =>
       /\ lastRet.ok
       /\ \/ lastRet.via = "end" /\ lastRet.end = Len(text)
          \/ lastRet.via = "child"

\* A Star over a literal, entered at cursor 0 on a text whose first character
\* is another one, has returned true at the text's length: its cursor went
\* below 0 and came down from Word - 1.
WitnessC10 ==
    /\ lastRet.kind = "Star"
    /\ lastRet.start = 0
    /\ lastRet.ok
    /\ lastRet.via = "end"
    /\ nodes[nodes[lastRet.node].node].kind = "Literal"
    /\ Len(text) > 0
    /\ text[1] # nodes[nodes[lastRet.node].node].value

====
